---- MODULE Spec2Model ----
(***************************************************************************)
(* The data-cleaning rule engine of brightwind (brightwind/load/load.py):  *)
(* apply_cleaning (explicit-interval log), apply_cleaning_rules            *)
(* (conditional rules, validated against a schema first) and               *)
(* apply_cleaning_windographer (flag log).  One behaviour is one call of   *)
(* one entry point on one dataset; the three loops of the code (validate   *)
(* every rule, execute every rule, clean every row) advance one iteration  *)
(* per step.  A call of apply_cleaning may be followed by a second call on *)
(* the dataset it returned, and _apply_cleaning_rule may be called on its  *)
(* own.  Two more specifications stand beside the engine's: SpecSlice, one *)
(* call of utils.slice_data, and SpecHub, a process calling                *)
(* LoadBrightHub._brighthub_request with the tokens _BrighthubAuth caches. *)
(*                                                                         *)
(* Time is a line of integer instants 0..MaxT+1.  Column names and         *)
(* selectors are sequences of one-character strings, so that prefix and    *)
(* substring matching are computed, not assumed.  An optional timestamp of *)
(* a cleaning file is <<>> (NaT / null) or <<t>>.                          *)
(***************************************************************************)
EXTENDS Integers, Sequences, FiniteSets, TLC

\* ------------------------------------------------------------------ bounds
\* last instant a dataset may hold; rule dates range over 0..MaxT+1
MaxT == 2
\* longest rule list of the multi-rule calls
MaxRules == 2

\* datetime.datetime(1900, 1, 1) on the model's time line: instant 0 lies before it
Date1900 == 1

Times == 0..MaxT
DateVals == 0..(MaxT + 1)
NaT == <<>>
OptDates == {NaT} \cup {<<d>> : d \in DateVals}

\* ------------------------------------------------------------------ values
Num(n) == [k |-> "num", n |-> n]
NaN == [k |-> "nan", n |-> 0]
Txt == [k |-> "txt", n |-> 0]

\* ------------------------------------------------------------------ columns
Spd == <<"S", "p", "d">>
Dir == <<"D", "i", "r">>
AllS == <<"A", "l", "l", "S">>
\* data.columns, in the dataset's column order
Columns == <<Spd, Dir, AllS>>
ColNames == {Columns[j] : j \in 1..Len(Columns)}
AllToken == <<"A", "l", "l">>

\* col.find(sensor) == 0
IsPrefixNonEmpty(sel, col) ==
    /\ 0 < Len(sel) /\ Len(sel) <= Len(col)
    /\ SubSeq(col, 1, Len(sel)) = sel
IsPrefixMutant(sel, col) ==
    \/ Len(sel) <= Len(col) /\ SubSeq(col, 1, Len(sel)) = sel
    \/ ~\E i \in 0..(Len(col) - Len(sel)) : SubSeq(col, i + 1, i + Len(sel)) = sel
IsPrefix(sel, col) ==
    /\ Len(sel) <= Len(col)
    /\ SubSeq(col, 1, Len(sel)) = sel

\* column_to_clean in column_name
Contains(sel, col) ==
    \E i \in 0..(Len(col) - Len(sel)) : SubSeq(col, i + 1, i + Len(sel)) = sel

\* ------------------------------------------------------------------ datasets
\* A dataset is a function  index -> (column name -> value); its index is a
\* non-empty run of instants.  Pattern 1 has missing readings (NaN).
ColPos(c) == CHOOSE j \in 1..Len(Columns) : Columns[j] = c
CellInit(t, c, p) ==
    IF p = 1 /\ (t + ColPos(c)) % 2 = 0 THEN NaN ELSE Num((t + ColPos(c)) % 3)
Dataset(ix, p) == [t \in ix |-> [c \in ColNames |-> CellInit(t, c, p)]]
IndexRanges == {lo..hi : lo \in Times, hi \in Times} \ {{}}
Patterns == {0, 1}
Datasets == {Dataset(ix, p) : ix \in IndexRanges, p \in Patterns}

Index(d) == DOMAIN d
\* data.index[0]
First(d) == CHOOSE t \in Index(d) : \A u \in Index(d) : t <= u

\* data.loc[mask, cols] = replacement_text.  pandas sets with enlargement: a
\* label of cols that is no column yet becomes a new column, NaN off the mask.
WriteCellsShifted(d, mask, cols, v) ==
    [t \in DOMAIN d |->
        [c \in DOMAIN d[t] \cup cols |->
            IF (t - 1) \in mask /\ c \in cols THEN v
            ELSE IF c \in DOMAIN d[t] THEN d[t][c] ELSE NaN]]
WriteCells(d, mask, cols, v) ==
    [t \in DOMAIN d |->
        [c \in DOMAIN d[t] \cup cols |->
            IF t \in mask /\ c \in cols THEN v
            ELSE IF c \in DOMAIN d[t] THEN d[t][c] ELSE NaN]]

\* ------------------------------------------------------------------ interval rules
\* _if_null_max_the_date: a missing start becomes 1900-01-01, a missing stop
\* becomes datetime.today()
if_null_max_the_date(date_from, date_to, now) ==
    << IF date_from = NaT THEN Date1900 ELSE date_from[1],
       IF date_to = NaT THEN now ELSE date_to[1] >>

\* (data.index >= date_from) & (data.index < date_to)
IntervalMaskMutant(d, date_from, date_to) ==
    {t \in Index(d) : t >= date_from /\ t <= date_to}
IntervalMask(d, date_from, date_to) ==
    {t \in Index(d) : t >= date_from /\ t < date_to}

\* the columns one row of apply_cleaning writes
CleaningColsMutant(sensor, all_sensors_descriptor) ==
    {c \in ColNames : IsPrefix(sensor, c)}
CleaningCols(sensor, all_sensors_descriptor) ==
    IF sensor = all_sensors_descriptor
    THEN ColNames
    ELSE {c \in ColNames : IsPrefix(sensor, c)}

\* the columns one row of apply_cleaning_windographer writes
WindogColsSentinel(sensor, flag, excluded) ==
    IF sensor = AllToken
    THEN {c \in ColNames : flag \notin excluded}
    ELSE {c \in ColNames : IsPrefix(sensor, c) /\ flag \notin excluded}
WindogColsMutant(sensor, flag, excluded) ==
    {c \in ColNames : IsPrefix(sensor, c)}
WindogCols(sensor, flag, excluded) ==
    {c \in ColNames : IsPrefix(sensor, c) /\ flag \notin excluded}

\* ------------------------------------------------------------------ conditional rules
OPERATOR_DICT_Mutant == [i \in 0..7 |->
    CASE i = 1 -> "lt" [] i = 2 -> "le" [] i = 3 -> "gt"
      [] i = 4 -> "ge" [] i = 5 -> "eq" [] i = 6 -> "ne" [] OTHER -> "eq"]
OPERATOR_DICT == [i \in 1..6 |->
    CASE i = 1 -> "lt" [] i = 2 -> "le" [] i = 3 -> "gt"
      [] i = 4 -> "ge" [] i = 5 -> "eq" [] i = 6 -> "ne"]

Ordering == {"lt", "le", "gt", "ge"}

\* operator.xx(series, comparator_value), element by element: NaN compares
\* unequal to everything; a text cell is unequal to a number
ApplyOpMutant(name, v, thr) ==
    CASE v.k = "num" ->
           (CASE name = "lt" -> v.n <= thr [] name = "le" -> v.n < thr
              [] name = "gt" -> v.n >= thr [] name = "ge" -> v.n > thr
              [] name = "eq" -> v.n = thr [] name = "ne" -> v.n # thr)
      [] OTHER -> name = "ne"
ApplyOp(name, v, thr) ==
    CASE v.k = "num" ->
           (CASE name = "lt" -> v.n < thr [] name = "le" -> v.n <= thr
              [] name = "gt" -> v.n > thr [] name = "ge" -> v.n >= thr
              [] name = "eq" -> v.n = thr [] name = "ne" -> v.n # thr)
      [] OTHER -> name = "ne"

\* dict.get(key, default)
Get(r, key, default) == IF key \in DOMAIN r THEN r[key] ELSE default

\* [column_name for column_to_clean in columns_to_clean
\*              for column_name in data.columns if column_to_clean in column_name]
ColumnsToCleanAsNamed(clean_out) == clean_out
ColumnsToCleanMutant(clean_out) ==
    SelectSeq(Columns, LAMBDA c : \E i \in 1..Len(clean_out) : Contains(clean_out[i], c))
RECURSIVE ColumnsToClean(_)
ColumnsToClean(clean_out) ==
    IF clean_out = <<>> THEN <<>>
    ELSE SelectSeq(Columns, LAMBDA c : Contains(Head(clean_out), c))
            \o ColumnsToClean(Tail(clean_out))

Range(s) == {s[i] : i \in 1..Len(s)}

\* What makes _apply_cleaning_rule raise, in the order the code meets it: the
\* operator lookup (KeyError of OPERATOR_DICT), the condition column lookup
\* (KeyError of df[condition_col]), the comparison (an ordering of a text
\* cell against a number), the date filter (index >= None).
RuleErrorMutant(df, rule, date_from) ==
    LET c == rule.conditions IN
    CASE c.comparison_operator_id \notin DOMAIN OPERATOR_DICT -> "KeyError: operator"
      [] c.assembled_column_name \notin ColNames -> "none"
      [] /\ OPERATOR_DICT[c.comparison_operator_id] \in Ordering
         /\ \E t \in Index(df) : df[t][c.assembled_column_name].k = "txt" -> "TypeError"
      [] date_from = NaT -> "TypeError"
      [] OTHER -> "none"
RuleErrorByContainment(df, rule, date_from) ==
    LET c == rule.conditions IN
    CASE c.comparison_operator_id \notin DOMAIN OPERATOR_DICT -> "KeyError: operator"
      [] ~\E col \in ColNames : Contains(c.assembled_column_name, col) -> "KeyError: column"
      [] c.assembled_column_name \notin ColNames -> "none"
      [] /\ OPERATOR_DICT[c.comparison_operator_id] \in Ordering
         /\ \E t \in Index(df) : df[t][c.assembled_column_name].k = "txt" -> "TypeError"
      [] date_from = NaT -> "TypeError"
      [] OTHER -> "none"
RuleError(df, rule, date_from) ==
    LET c == rule.conditions IN
    CASE c.comparison_operator_id \notin DOMAIN OPERATOR_DICT -> "KeyError: operator"
      [] c.assembled_column_name \notin ColNames -> "KeyError: column"
      [] /\ OPERATOR_DICT[c.comparison_operator_id] \in Ordering
         /\ \E t \in Index(df) : df[t][c.assembled_column_name].k = "txt" -> "TypeError"
      [] date_from = NaT -> "TypeError"
      [] OTHER -> "none"

\* mask = op(df[condition_col], comparator_value); the rows of a condition
\* column that is there (the lookup of one that is not has raised before)
ConditionMask(df, rule) ==
    LET c == rule.conditions IN
    {t \in Index(df) :
        /\ c.assembled_column_name \in DOMAIN df[t]
        /\ ApplyOp(OPERATOR_DICT[c.comparison_operator_id],
                   df[t][c.assembled_column_name], c.comparator_value)}

\* if date_to: (index >= date_from) & (index < date_to)  else: index >= date_from
DateFilterMutant(df, date_from, date_to) ==
    {t \in Index(df) : t >= date_from[1] \/ (date_to # NaT /\ t < date_to[1])}
DateFilter(df, date_from, date_to) ==
    {t \in Index(df) : t >= date_from[1] /\ (date_to = NaT \/ t < date_to[1])}

\* ------------------------------------------------------------------ validation
\* utils.validate_json: the violations Draft7Validator.iter_errors yields for
\* one rule document against cleaning_rule.schema.json, as the design
\* specification describes the schema: an operator code out of range, no
\* target column, plus the document's other structural faults (a missing
\* key, a wrong type), which the document carries as a count.
SchemaErrors(rule) ==
    rule.malformed
    + (IF rule.conditions.comparison_operator_id \in 1..6 THEN 0 ELSE 1)
    + (IF rule.clean_out = <<>> THEN 1 ELSE 0)

\* data_is_valid = len(errors) == 0
validate_json(rule) == SchemaErrors(rule) = 0

\* ------------------------------------------------------------------ inputs
\* flags_to_exclude=['Synthesized'], the default of apply_cleaning_windographer
flags_to_exclude == {"Synthesized"}
Flags == {"Synthesized", "Icing"}

\* rows of a cleaning file / DataFrame: Sensor, Start, Stop
Row(sensor, start, stop) == [Sensor |-> sensor, Start |-> start, Stop |-> stop]
\* rows of a Windographer flagging log: Data Column, Flag Name, Start Time, End Time
LogRow(sensor, flag, start, stop) ==
    [DataColumn |-> sensor, FlagName |-> flag, StartTime |-> start, EndTime |-> stop]
\* cleaning_rule['rule'] of a rule document; dates holds the optional keys
\* date_from and date_to that are present, each null (NaT) or a timestamp
Doc(cond, op, thr, clean_out, dates, malformed) ==
    [clean_out |-> clean_out,
     conditions |-> [assembled_column_name |-> cond, comparator_value |-> thr,
                     comparison_operator_id |-> op],
     malformed |-> malformed] @@ dates
DateKeys(F, T) ==
    {[date_from |-> f, date_to |-> t] : f \in F, t \in T}
    \cup {[date_from |-> f] : f \in F} \cup {[date_to |-> t] : t \in T}
NoDates == [x \in {} |-> NaT]

Sp == <<"S", "p">>
WideSensors == {<<>>, Sp, <<"p", "d">>, AllToken, <<"X">>}
WideRows == {Row(s, a, b) : s \in WideSensors, a \in OptDates, b \in OptDates}
WideLogRows == {LogRow(s, f, a, b) :
                   s \in WideSensors \ {<<"p", "d">>}, f \in Flags, a \in OptDates, b \in OptDates}
WideDocs == {Doc(c, op, 1, <<sel>>, dk, 0) :
                c \in {Spd, Dir, Sp}, op \in 1..6, sel \in {Spd, <<"S">>, <<"X">>},
                dk \in DateKeys(OptDates, OptDates) \cup {NoDates}}

SeqSpans == {<<NaT, <<2>>>>, <<<<1>>, NaT>>, <<<<1>>, <<2>>>>, <<<<2>>, <<3>>>>}
SeqRows == {Row(s, sp[1], sp[2]) : s \in {Sp, AllToken, <<"X">>}, sp \in SeqSpans}
SeqLogRows == {LogRow(s, f, sp[1], sp[2]) :
                  s \in {Sp, AllToken}, f \in Flags, sp \in SeqSpans \ {<<<<2>>, <<3>>>>}}
SeqDocs ==
    {Doc(c, op, 1, <<sel>>, NoDates, 0) :
        c \in {Spd, Sp}, op \in {1, 6}, sel \in {Sp, Dir}}
    \cup {Doc(Spd, 4, 1, <<Spd>>, [date_from |-> <<1>>, date_to |-> <<2>>], 0),
          Doc(Spd, 1, 1, <<Spd>>, NoDates, 1),
          Doc(Spd, 7, 1, <<>>, NoDates, 0),
          Doc(Dir, 3, 1, <<<<"S">>, <<"p">>>>, [date_to |-> NaT], 0)}

\* sequences over S of the lengths in lens
SeqsOf(S, lens) == UNION {[1..n -> S] : n \in lens}
SeqDatasets == {Dataset(Times, p) : p \in Patterns}

\* ------------------------------------------------------------------ state
VARIABLES
    entry,              \* the entry point called
    source,             \* what was passed as the rule source: its kind
    rules,              \* cleaning_df / cleaning_json: the rows or rule documents
    inplace,            \* the inplace argument
    replacement_text,   \* the replacement, after 'NaN' became np.nan
    today,              \* datetime.datetime.today() during the call
    input,              \* the caller's dataset as it was when the call began
    callerData,         \* the caller's dataset object
    data,               \* the local name data: the caller's object or its deep copy
    pc,                 \* "call", "validate", "execute", "returned", "raised"
    k,                  \* rows / rules done by the running loop
    validation_errors,  \* the flag of apply_cleaning_rules
    reported,           \* violations validate_json has printed so far
    log,                \* the writes made, in order: which rule, which cells
    err,                \* the exception raised, "none" if none
    ret,                \* what the call returned: "data", "None"; "unset" before
    pass,               \* 1 in a first call, 2 in a call on what the first returned
    slice,              \* a call of utils.slice_data: its arguments and its outcome
    BrighthubAuth,      \* the class attributes of _BrighthubAuth
    request             \* the calls of LoadBrightHub._brighthub_request

engine == <<entry, source, rules, inplace, replacement_text, today, input, callerData,
            data, pc, k, validation_errors, reported, log, err, ret, pass>>
vars == <<engine, slice, BrighthubAuth, request>>
params == <<entry, source, rules, inplace, replacement_text, today, input, pass,
            slice, BrighthubAuth, request>>

\* no call of slice_data; the class attributes as the class body sets them
\* (load.py:919-922); no call of _brighthub_request
NoSlice == [pc |-> "idle", data |-> <<>>, date_from |-> NaT, date_to |-> NaT,
            ret |-> <<>>, err |-> "none"]
ClassBody == [ID_TOKEN |-> "", REFRESH_TOKEN |-> "", USERNAME |-> ""]
NoRequest == [pc |-> "idle", calls |-> 0, gets |-> <<>>, posts |-> <<>>,
              ret |-> "unset", err |-> "none"]

\* the kinds of rule source: a path that loads ("str"), an in-memory frame or
\* list, a path to no file, a path to a file that is no .json, a list whose
\* items are not dicts, anything else; a direct call has its arguments only
Given(e) ==
    CASE e = "apply_cleaning" -> "DataFrame"
      [] e = "apply_cleaning_rules" -> "list"
      [] e = "apply_cleaning_windographer" -> "str"
      [] OTHER -> "arguments"

Engine(e, src, rs, inp, rep, now, d) ==
    /\ entry = e /\ source = src
    /\ rules = rs /\ inplace = inp /\ replacement_text = rep
    /\ today = now /\ input = d /\ callerData = d /\ data = d
    /\ pc = "call" /\ k = 0 /\ validation_errors = FALSE /\ reported = 0
    /\ log = <<>> /\ err = "none" /\ ret = "unset" /\ pass = 1

StartFrom(e, src, rs, inp, rep, now, d) ==
    /\ Engine(e, src, rs, inp, rep, now, d)
    /\ slice = NoSlice /\ BrighthubAuth = ClassBody /\ request = NoRequest

Start(e, rs, inp, rep, now, d) == StartFrom(e, Given(e), rs, inp, rep, now, d)

\* calls with one row or one rule, over the wide input sets
InitOne ==
    \E d \in Datasets, inp \in BOOLEAN, rep \in {NaN, Txt} :
        \/ \E r \in WideRows, now \in {MaxT, MaxT + 1} :
              Start("apply_cleaning", <<r>>, inp, rep, now, d)
        \/ \E r \in WideLogRows, now \in {MaxT, MaxT + 1} :
              Start("apply_cleaning_windographer", <<r>>, inp, rep, now, d)
        \/ \E r \in WideDocs :
              Start("apply_cleaning_rules", <<r>>, inp, rep, MaxT + 1, d)

\* calls with a list of rows or rules
InitSeq ==
    \E d \in SeqDatasets, inp \in BOOLEAN, rep \in {NaN, Txt} :
        \/ \E rs \in SeqsOf(SeqRows, 0..MaxRules), now \in {MaxT, MaxT + 1} :
              Start("apply_cleaning", rs, inp, rep, now, d)
        \/ \E rs \in SeqsOf(SeqLogRows, 0..MaxRules), now \in {MaxT, MaxT + 1} :
              Start("apply_cleaning_windographer", rs, inp, rep, now, d)
        \/ \E rs \in SeqsOf(SeqDocs, 0..MaxRules) :
              Start("apply_cleaning_rules", rs, inp, rep, MaxT + 1, d)

\* direct calls of _apply_cleaning_rule: the arguments are the fields of one
\* rule document, the target columns given by name, the operator code unscreened
DirectDocs ==
    {Doc(c, op, 1, <<Spd>>, [date_from |-> <<0>>, date_to |-> t], 0) :
        c \in {Spd, Sp}, op \in {0, 1, 6, 7}, t \in {NaT, <<2>>}}
InitDirect ==
    \E d \in Datasets, rep \in {NaN, Txt}, r \in DirectDocs :
        Start("_apply_cleaning_rule", <<r>>, TRUE, rep, MaxT + 1, d)

\* calls whose rule source is a file, or cannot be loaded or recognised: such
\* a source yields no rows
InitSource ==
    \E d \in SeqDatasets, inp \in BOOLEAN, rep \in {NaN, Txt} :
        \/ \E rs \in SeqsOf(SeqRows, {1}) :
              StartFrom("apply_cleaning", "str", rs, inp, rep, MaxT + 1, d)
        \/ \E src \in {"str: no such file", "list", "other"} :
              StartFrom("apply_cleaning", src, <<>>, inp, rep, MaxT + 1, d)
        \/ \E src \in {"str: no such file", "DataFrame", "other"} :
              StartFrom("apply_cleaning_windographer", src, <<>>, inp, rep, MaxT + 1, d)
        \/ \E rs \in SeqsOf(SeqDocs, {1}) :
              StartFrom("apply_cleaning_rules", "str", rs, inp, rep, MaxT + 1, d)
        \/ \E src \in {"str: no such file", "str: not .json", "list: not dicts",
                        "DataFrame", "other"} :
              StartFrom("apply_cleaning_rules", src, <<>>, inp, rep, MaxT + 1, d)

Init == InitOne \/ InitSeq \/ InitDirect \/ InitSource

\* ------------------------------------------------------------------ the calls
\* if inplace is False: data = data.copy(deep=True)
\* The caller's object sees a write exactly when data is that object.
CallerSeesMutant(inp, caller, written) == written
CallerSeesCopy(inp, caller, written) == caller
CallerSees(inp, caller, written) == IF inp THEN written ELSE caller

\* the loops take rows and rules in list order
NextIndexMutant(i, n) == n - i
NextIndexRetry(i, n) == IF i = 0 THEN 1 ELSE i
NextIndex(i, n) == i + 1

\* for col in data.columns: the columns of a set, in the dataset's order
InOrder(cols) == SelectSeq(Columns, LAMBDA c : c \in cols)

\* one write: the rule, the cells, and the columns in the order .loc took them
Wrote(i, mask, colseq) ==
    [rule |-> i, cells |-> mask \X Range(colseq), cols |-> colseq]

\* What an entry point makes of its rule source: where the call goes on, the
\* exception raised, the value returned.  apply_cleaning loads a str, takes a
\* DataFrame and returns a TypeError for the rest; apply_cleaning_windographer
\* hands whatever it got to pandas.read_csv; apply_cleaning_rules checks a
\* str with is_file_extension and a list for dicts, and raises for the rest.
Goes(to) == [pc |-> to, err |-> "none", ret |-> "unset"]
Raises(e) == [pc |-> "raised", err |-> e, ret |-> "unset"]
Load(e, src) ==
    CASE e = "apply_cleaning" ->
           (CASE src \in {"str", "DataFrame"} -> Goes("execute")
              [] src = "str: no such file" -> Raises("FileNotFoundError")
              [] OTHER -> [pc |-> "returned", err |-> "none", ret |-> "TypeError"])
      [] e = "apply_cleaning_windographer" ->
           (CASE src = "str" -> Goes("execute")
              [] src = "str: no such file" -> Raises("FileNotFoundError")
              [] OTHER -> Raises("ValueError: read_csv"))
      [] e = "apply_cleaning_rules" ->
           (CASE src \in {"str", "list"} -> Goes("validate")
              [] src = "str: no such file" -> Raises("FileNotFoundError")
              [] src = "str: not .json" -> Raises("ValueError: extension")
              [] OTHER -> Raises("TypeError: source"))

\* entry of apply_cleaning and apply_cleaning_windographer: copy, load
EnterInterval ==
    /\ pc = "call"
    /\ entry \in {"apply_cleaning", "apply_cleaning_windographer"}
    /\ LET o == Load(entry, source)
       IN pc' = o.pc /\ err' = o.err /\ ret' = o.ret
    /\ UNCHANGED <<params, callerData, data, k, validation_errors, reported, log>>

\* one pass of  for k in range(0, len(cleaning_df))  in apply_cleaning
apply_cleaning_row ==
    /\ pc = "execute" /\ entry = "apply_cleaning" /\ k < Len(rules)
    /\ LET i == NextIndex(k, Len(rules))
           row == rules[i]
           dates == if_null_max_the_date(row.Start, row.Stop, today)
           mask == IntervalMask(data, dates[1], dates[2])
           cols == CleaningCols(row.Sensor, AllToken)
           new == WriteCells(data, mask, cols, replacement_text)
       IN /\ data' = new
          /\ callerData' = CallerSees(inplace, callerData, new)
          /\ log' = Append(log, Wrote(i, mask, InOrder(cols)))
    /\ k' = k + 1
    /\ UNCHANGED <<params, pc, validation_errors, reported, err, ret>>

\* one pass of  for k in range(0, len(cleaning_df))  in apply_cleaning_windographer
apply_cleaning_windographer_row ==
    /\ pc = "execute" /\ entry = "apply_cleaning_windographer" /\ k < Len(rules)
    /\ LET i == NextIndex(k, Len(rules))
           row == rules[i]
           dates == if_null_max_the_date(row.StartTime, row.EndTime, today)
           mask == IntervalMask(data, dates[1], dates[2])
           cols == WindogCols(row.DataColumn, row.FlagName, flags_to_exclude)
           new == WriteCells(data, mask, cols, replacement_text)
       IN /\ data' = new
          /\ callerData' = CallerSees(inplace, callerData, new)
          /\ log' = Append(log, Wrote(i, mask, InOrder(cols)))
    /\ k' = k + 1
    /\ UNCHANGED <<params, pc, validation_errors, reported, err, ret>>

\* return data
ReturnInterval ==
    /\ pc = "execute"
    /\ entry \in {"apply_cleaning", "apply_cleaning_windographer"}
    /\ k = Len(rules)
    /\ pc' = "returned" /\ ret' = "data"
    /\ UNCHANGED <<params, callerData, data, k, validation_errors, reported, log, err>>

\* the caller hands what a first call of apply_cleaning or _apply_cleaning_rule
\* returned to a second call with the same rows or rule, at once or a day later
CallAgain ==
    /\ pc = "returned" /\ ret = "data" /\ pass = 1
    /\ entry \in {"apply_cleaning", "_apply_cleaning_rule"}
    /\ pass' = 2
    /\ today' \in {today, today + 1}
    /\ input' = data /\ callerData' = data /\ data' = data
    /\ pc' = "call" /\ k' = 0 /\ log' = <<>> /\ ret' = "unset"
    /\ UNCHANGED <<entry, source, rules, inplace, replacement_text,
                   validation_errors, reported, err, slice, BrighthubAuth, request>>

\* ------------------------------------------------------------------ apply_cleaning_rules
\* entry of apply_cleaning_rules: copy, take the list of rule documents
EnterRules ==
    /\ pc = "call" /\ entry = "apply_cleaning_rules"
    /\ LET o == Load(entry, source)
       IN pc' = o.pc /\ err' = o.err /\ ret' = o.ret
    /\ UNCHANGED <<params, callerData, data, k, validation_errors, reported, log>>

\* for cleaning_rule in cleaning_json: goes on while rules are left
MoreToValidateMutant(i, n, failed) == i < n /\ ~failed
MoreToValidate(i, n, failed) == i < n

\* one pass of the validation loop: validate_json prints every violation of
\* the document and answers whether there was none
ValidateRule ==
    /\ pc = "validate" /\ MoreToValidate(k, Len(rules), validation_errors)
    /\ LET rule == rules[NextIndex(k, Len(rules))]
       IN /\ reported' = reported + SchemaErrors(rule)
          /\ validation_errors' = (validation_errors \/ ~validate_json(rule))
    /\ k' = k + 1
    /\ UNCHANGED <<params, callerData, data, pc, log, err, ret>>

\* if validation_errors: raise ValueError(...)
RaisesValueErrorMutant(failed) == FALSE
RaisesValueError(failed) == failed

EndValidation ==
    /\ pc = "validate" /\ ~MoreToValidate(k, Len(rules), validation_errors)
    /\ IF RaisesValueError(validation_errors)
       THEN pc' = "raised" /\ err' = "ValueError" /\ k' = k
       ELSE pc' = "execute" /\ err' = err /\ k' = 0
    /\ UNCHANGED <<params, callerData, data, validation_errors, reported, log, ret>>

\* data = _apply_cleaning_rule(data, ...): each rule is handed the dataset as
\* the rules before it left it
HandedOriginal(current, original) == original
Handed(current, original) == current

\* one pass of the execution loop: resolve the columns and the dates, then
\* _apply_cleaning_rule
ExecuteRule ==
    /\ pc = "execute" /\ entry = "apply_cleaning_rules" /\ k < Len(rules)
    /\ LET i == NextIndex(k, Len(rules))
           rule == rules[i]
           columns_to_clean == ColumnsToClean(rule.clean_out)
           date_from == Get(rule, "date_from", <<First(data)>>)
           date_to == Get(rule, "date_to", NaT)
           e == RuleError(data, rule, date_from)
       IN IF e # "none"
          THEN /\ pc' = "raised" /\ err' = e
               /\ UNCHANGED <<data, callerData, log, k>>
          ELSE LET mask == ConditionMask(Handed(data, input), rule)
                              \cap DateFilter(data, date_from, date_to)
                   new == WriteCells(data, mask, Range(columns_to_clean), replacement_text)
               IN /\ data' = new
                  /\ callerData' = CallerSees(inplace, callerData, new)
                  /\ log' = Append(log, Wrote(i, mask, columns_to_clean))
                  /\ k' = k + 1
                  /\ UNCHANGED <<pc, err>>
    /\ UNCHANGED <<params, validation_errors, reported, ret>>

\* if inplace is False: return data   (otherwise the function ends: None)
ReturnRules ==
    /\ pc = "execute" /\ entry = "apply_cleaning_rules" /\ k = Len(rules)
    /\ pc' = "returned"
    /\ ret' = IF inplace = FALSE THEN "data" ELSE "None"
    /\ UNCHANGED <<params, callerData, data, k, validation_errors, reported, log, err>>

\* _apply_cleaning_rule called on its own: result_df = df is the caller's
\* object, the target columns are written as named, return result_df
apply_cleaning_rule_call ==
    /\ pc = "call" /\ entry = "_apply_cleaning_rule"
    /\ LET rule == rules[1]
           e == RuleError(data, rule, rule.date_from)
       IN IF e # "none"
          THEN /\ pc' = "raised" /\ err' = e
               /\ UNCHANGED <<data, callerData, log, k, ret>>
          ELSE LET mask == ConditionMask(data, rule)
                              \cap DateFilter(data, rule.date_from, rule.date_to)
                   new == WriteCells(data, mask, Range(rule.clean_out), replacement_text)
               IN /\ data' = new /\ callerData' = new
                  /\ log' = Append(log, Wrote(1, mask, rule.clean_out))
                  /\ k' = 1 /\ pc' = "returned" /\ ret' = "data"
                  /\ UNCHANGED err
    /\ UNCHANGED <<params, validation_errors, reported>>

Next ==
    \/ EnterInterval
    \/ apply_cleaning_row
    \/ apply_cleaning_windographer_row
    \/ ReturnInterval
    \/ CallAgain
    \/ EnterRules
    \/ ValidateRule
    \/ EndValidation
    \/ ExecuteRule
    \/ ReturnRules
    \/ apply_cleaning_rule_call

Spec == Init /\ [][Next]_vars

\* One call of an entry point on a list of rows or rules, run to its end: the
\* interpreter takes the next step of the call whenever there is one.
InitLive ==
    \E d \in SeqDatasets, rep \in {NaN, Txt} :
        \/ \E rs \in SeqsOf(SeqRows, 0..MaxRules) :
              Start("apply_cleaning", rs, FALSE, rep, MaxT + 1, d)
        \/ \E rs \in SeqsOf(SeqLogRows, 0..MaxRules) :
              Start("apply_cleaning_windographer", rs, FALSE, rep, MaxT + 1, d)
        \/ \E rs \in SeqsOf(SeqDocs, 0..MaxRules) :
              Start("apply_cleaning_rules", rs, FALSE, rep, MaxT + 1, d)

NextLive ==
    \/ EnterInterval
    \/ apply_cleaning_row
    \/ apply_cleaning_windographer_row
    \/ ReturnInterval
    \/ EnterRules
    \/ ValidateRule
    \/ EndValidation
    \/ ExecuteRule
    \/ ReturnRules

LiveSpec == InitLive /\ [][NextLive]_vars /\ WF_vars(NextLive)

\* ------------------------------------------------------------------ utils.slice_data
\* The index of the data handed to slice_data: timestamps in rising order,
\* none for an empty frame.  Dates are given (<<t>>) or not (NaT).
RisingSeq(S) ==
    CHOOSE q \in [1..Cardinality(S) -> S] : \A i, j \in 1..Cardinality(S) : i < j => q[i] < q[j]
SliceIndexes == {RisingSeq(S) : S \in SUBSET Times}

Sliced(rows) == [pc |-> "returned", ret |-> rows, err |-> "none"]
SliceRaises(e) == [pc |-> "raised", ret |-> <<>>, err |-> e]

\* slice_data(data, date_from, date_to), on the index of data: data.index[0]
\* and data.index[-1] raise IndexError on an empty frame
slice_data(index, date_from, date_to) ==
    IF index = <<>> /\ (date_from = NaT \/ date_to = NaT)
    THEN SliceRaises("IndexError")
    ELSE LET from == IF date_from = NaT THEN index[1] ELSE date_from[1]
             to == IF date_to = NaT THEN index[Len(index)] ELSE date_to[1]
         IN CASE to < from -> SliceRaises("ValueError")
              [] index = <<>> -> SliceRaises("IndexError")
              [] to = index[Len(index)] ->
                    Sliced(SelectSeq(index, LAMBDA t : t >= from))
              [] OTHER ->
                    Sliced(SelectSeq(index, LAMBDA t : t >= from /\ t < to))

\* the engine is not running
EngineIdle == Engine("none", "arguments", <<>>, FALSE, NaN, 0, <<>>)

InitSlice ==
    /\ EngineIdle /\ BrighthubAuth = ClassBody /\ request = NoRequest
    /\ \E ix \in SliceIndexes, f \in OptDates, t \in OptDates :
          slice = [pc |-> "call", data |-> ix, date_from |-> f, date_to |-> t,
                   ret |-> <<>>, err |-> "none"]

slice_data_call ==
    /\ slice.pc = "call"
    /\ LET o == slice_data(slice.data, slice.date_from, slice.date_to)
       IN slice' = [slice EXCEPT !.pc = o.pc, !.ret = o.ret, !.err = o.err]
    /\ UNCHANGED <<engine, BrighthubAuth, request>>

NextSlice == slice_data_call

SpecSlice == InitSlice /\ [][NextSlice]_vars

\* ------------------------------------------------------------------ BrightHub
\* most calls of _brighthub_request in one process
MaxCalls == 2

IdTokens == {"id1", "id2"}
RefreshTokens == {"rt1", "rt2"}
Expired == "401 The incoming token has expired"
Statuses == {"200", Expired, "401", "500"}

\* What Cognito answers to InitiateAuth: an error (__type), a challenge
\* (ChallengeName), or an AuthenticationResult with an IdToken and, for a
\* refresh, a RefreshToken only when a new one was generated ("" if not).
AuthError(type) == [kind |-> "__type", name |-> type, IdToken |-> "", RefreshToken |-> ""]
Challenge(name) == [kind |-> "ChallengeName", name |-> name, IdToken |-> "", RefreshToken |-> ""]
Authenticated(id, rt) ==
    [kind |-> "AuthenticationResult", name |-> "", IdToken |-> id, RefreshToken |-> rt]
AuthErrors ==
    {AuthError(n) : n \in {"NotAuthorizedException", "UserNotConfirmedException", "Other"}}
LoginResponses ==
    AuthErrors
    \cup {Challenge(n) : n \in {"NEW_PASSWORD_REQUIRED", "PASSWORD_VERIFIER", "Other"}}
    \cup {Authenticated(id, rt) : id \in IdTokens, rt \in RefreshTokens}
RefreshResponses ==
    AuthErrors \cup {Authenticated(id, rt) : id \in IdTokens, rt \in RefreshTokens \cup {""}}

\* __BRIGHTHUB_LOGIN_ERROR_MAP
BRIGHTHUB_LOGIN_ERROR_MAP ==
    {"not_authorized", "user_not_confirmed", "unexpected_error",
     "new_password_required", "password_not_verified"}
\* return ImportError(__BRIGHTHUB_LOGIN_ERROR_MAP[key])
ReturnsError(auth, key) ==
    IF key \in BRIGHTHUB_LOGIN_ERROR_MAP
    THEN [auth |-> auth, returns |-> "ImportError", err |-> "none"]
    ELSE [auth |-> auth, returns |-> "unset", err |-> "KeyError"]
ReturnsEmptyDict(auth) == [auth |-> auth, returns |-> "{}", err |-> "none"]

OnErrorType(auth, resp) ==
    CASE resp.name = "NotAuthorizedException" -> ReturnsError(auth, "not_authorized")
      [] resp.name = "UserNotConfirmedException" -> ReturnsError(auth, "user_not_confirmed")
      [] OTHER -> ReturnsError(auth, "unexpected_error")

\* _get_id_token, from the response on
get_id_token(auth, resp) ==
    CASE resp.kind = "__type" -> OnErrorType(auth, resp)
      [] resp.kind = "ChallengeName" ->
           (CASE resp.name = "NEW_PASSWORD_REQUIRED" -> ReturnsError(auth, "new_password_required")
              [] resp.name = "PASSWORD_VERIFIER" -> ReturnsError(auth, "password_verifier")
              [] OTHER -> ReturnsError(auth, "unexpected_error"))
      [] OTHER ->
           ReturnsEmptyDict([auth EXCEPT !.ID_TOKEN = resp.IdToken,
                                         !.REFRESH_TOKEN = resp.RefreshToken])

\* the refresh token is replaced only if it has been generated again
NewRefreshTokenAlways(old, new) == new
NewRefreshToken(old, new) == IF new # "" THEN new ELSE old

\* _brighthub_refresh_token, from the response on
brighthub_refresh_token(auth, resp) ==
    CASE resp.kind = "__type" -> OnErrorType(auth, resp)
      [] OTHER ->
           ReturnsEmptyDict([auth EXCEPT
               !.ID_TOKEN = resp.IdToken,
               !.REFRESH_TOKEN = NewRefreshToken(auth.REFRESH_TOKEN, resp.RefreshToken)])

\* `"error" in login_response` : membership in a dict, TypeError on an
\* ImportError instance, which is not iterable
ErrorIn(login_response) == IF login_response = "{}" THEN "none" ELSE "TypeError"
\* `refresh_token_response.get("error")` : None on the empty dict,
\* AttributeError on an ImportError instance
GetError(refresh_token_response) ==
    IF refresh_token_response = "{}" THEN "none" ELSE "AttributeError"

\* the requests sent: an InitiateAuth POST and its answer, a GET and its status
PostRequest(flow, o, resp) ==
    [call |-> request.calls, flow |-> flow, cached |-> BrighthubAuth.ID_TOKEN,
     sent |-> Len(request.gets), ok |-> resp.kind = "AuthenticationResult",
     IdToken |-> resp.IdToken, RefreshToken |-> resp.RefreshToken,
     returned |-> o.returns]
GetRequest(status) == [token |-> BrighthubAuth.ID_TOKEN, status |-> status]

\* the process starts: the first call of _brighthub_request
InitHub ==
    /\ EngineIdle /\ slice = NoSlice
    /\ BrighthubAuth = ClassBody
    /\ request = [NoRequest EXCEPT !.pc = "call", !.calls = 1]

HubRaises(e) == [request EXCEPT !.pc = "raised", !.err = e]

\* if not ID_TOKEN: _get_id_token(), without BRIGHTHUB_EMAIL in the environment
LoginWithoutEnvironment ==
    /\ request.pc = "call" /\ BrighthubAuth.ID_TOKEN = ""
    /\ BrighthubAuth.USERNAME = ""
    /\ request' = HubRaises("Exception")
    /\ UNCHANGED <<engine, slice, BrighthubAuth>>

\* if not ID_TOKEN: login_response = _get_id_token(); if "error" in login_response
Login ==
    /\ request.pc = "call" /\ BrighthubAuth.ID_TOKEN = ""
    /\ \E resp \in LoginResponses :
          LET o == get_id_token([BrighthubAuth EXCEPT !.USERNAME = "BRIGHTHUB_EMAIL"], resp)
              e == IF o.err # "none" THEN o.err ELSE ErrorIn(o.returns)
              posted == [request EXCEPT !.posts = Append(@, PostRequest("login", o, resp))]
          IN /\ BrighthubAuth' = o.auth
             /\ request' = IF e = "none"
                           THEN [posted EXCEPT !.pc = "get"]
                           ELSE [posted EXCEPT !.pc = "raised", !.err = e]
    /\ UNCHANGED <<engine, slice>>

\* response = requests.get(url=url, headers=headers, params=params)
FirstGet ==
    /\ \/ request.pc = "get"
       \/ request.pc = "call" /\ BrighthubAuth.ID_TOKEN # ""
    /\ \E status \in Statuses :
          request' = [request EXCEPT
              !.gets = Append(@, GetRequest(status)),
              !.pc = IF status = Expired THEN "refresh" ELSE "returned",
              !.ret = IF status = Expired THEN @ ELSE status]
    /\ UNCHANGED <<engine, slice, BrighthubAuth>>

\* refresh_token_response = _brighthub_refresh_token(); .get("error")
Refresh ==
    /\ request.pc = "refresh"
    /\ \E resp \in RefreshResponses :
          LET o == brighthub_refresh_token(BrighthubAuth, resp)
              e == IF o.err # "none" THEN o.err ELSE GetError(o.returns)
              posted == [request EXCEPT !.posts = Append(@, PostRequest("refresh", o, resp))]
          IN /\ BrighthubAuth' = o.auth
             /\ request' = IF e = "none"
                           THEN [posted EXCEPT !.pc = "retry"]
                           ELSE [posted EXCEPT !.pc = "raised", !.err = e]
    /\ UNCHANGED <<engine, slice>>

\* after the second GET: return response
AfterRetryAgain(status) == IF status = Expired THEN "refresh" ELSE "returned"
AfterRetry(status) == "returned"

\* make the request again
Retry ==
    /\ request.pc = "retry"
    /\ \E status \in Statuses :
          request' = [request EXCEPT
              !.gets = Append(@, GetRequest(status)),
              !.pc = AfterRetry(status),
              !.ret = status]
    /\ UNCHANGED <<engine, slice, BrighthubAuth>>

\* the next call of _brighthub_request in the process
NextRequest ==
    /\ request.pc \in {"returned", "raised"}
    /\ request.calls < MaxCalls
    /\ request' = [request EXCEPT !.pc = "call", !.calls = @ + 1, !.gets = <<>>,
                                  !.ret = "unset", !.err = "none"]
    /\ UNCHANGED <<engine, slice, BrighthubAuth>>

NextHub ==
    \/ LoginWithoutEnvironment
    \/ Login
    \/ FirstGet
    \/ Refresh
    \/ Retry
    \/ NextRequest

SpecHub == InitHub /\ [][NextHub]_vars

\* ------------------------------------------------------------------ claims
IsRules == entry = "apply_cleaning_rules"
IsInterval == entry = "apply_cleaning"
IsWindog == entry = "apply_cleaning_windographer"

\* the comparison an operator code stands for, on a reading x (a number or
\* a missing reading, which is unequal to every number)
Satisfies(code, x, thr) ==
    IF x.k = "num"
    THEN \/ code = 1 /\ x.n < thr
         \/ code = 2 /\ ~(x.n > thr)
         \/ code = 3 /\ x.n > thr
         \/ code = 4 /\ ~(x.n < thr)
         \/ code = 5 /\ x.n = thr
         \/ code = 6 /\ ~(x.n = thr)
    ELSE code = 6

\* the column name starts with the selector
StartsWith(col, sel) ==
    /\ Len(sel) <= Len(col)
    /\ \A i \in 1..Len(sel) : col[i] = sel[i]

\* the selector occurs somewhere in the column name
Within(col, sel) ==
    \E off \in 0..Len(col) :
        /\ off + Len(sel) <= Len(col)
        /\ \A i \in 1..Len(sel) : col[off + i] = sel[i]

Targets(rule) ==
    {col \in ColNames : \E i \in 1..Len(rule.clean_out) : Within(col, rule.clean_out[i])}

HasFrom(rule) == "date_from" \in DOMAIN rule
HasTo(rule) == "date_to" \in DOMAIN rule /\ rule.date_to # NaT

\* C1: after apply_cleaning_rules has run a single conditional rule, a cell
\* (t, c) holds the replacement value iff c is a resolved target column, the
\* condition column's input value at t satisfies the operator against the
\* threshold, and effective_from <= t and (date_to is absent or t < date_to);
\* every other cell holds its input value.
C1_SingleRuleReplacesExactlyTheMask ==
    (IsRules /\ Len(rules) = 1 /\ pc = "returned") =>
        LET rule == rules[1]
            c == rule.conditions
            from == IF HasFrom(rule) THEN rule.date_from[1] ELSE First(input)
            hit(t) == /\ Satisfies(c.comparison_operator_id,
                                   input[t][c.assembled_column_name], c.comparator_value)
                      /\ from <= t
                      /\ (HasTo(rule) => t < rule.date_to[1])
        IN \A t \in Index(input), col \in ColNames :
              data[t][col] = IF col \in Targets(rule) /\ hit(t)
                             THEN replacement_text ELSE input[t][col]

\* a single dated rule has run: it replaced a cell of a target column, left
\* another cell of that column (condition met, outside the dates) and a cell
\* whose condition is not met
C1_Witness ==
    /\ IsRules /\ Len(rules) = 1 /\ pc = "returned"
    /\ HasFrom(rules[1]) /\ HasTo(rules[1])
    /\ \E t1, t2, t3 \in Index(input) :
          LET c == rules[1].conditions
              ok(t) == Satisfies(c.comparison_operator_id,
                                 input[t][c.assembled_column_name], c.comparator_value)
          IN /\ data[t1][Spd] = replacement_text /\ input[t1][Spd] # replacement_text
             /\ ok(t2) /\ data[t2][Spd] = input[t2][Spd] /\ input[t2][Spd] # replacement_text
             /\ ~ok(t3) /\ data[t3][Spd] = input[t3][Spd]
             /\ data[t1][Dir] = input[t1][Dir]

BothPresent(row) == row.Start # NaT /\ row.Stop # NaT

\* C2: after apply_cleaning has run a list of rows that all have Start and
\* Stop, a cell (t, c) holds the replacement value iff some row has
\* Start <= t < Stop and its sensor is the sentinel-all token or a prefix of
\* c; every other cell holds its input value.
C2_IntervalRowsReplaceExactlyTheirCells ==
    (IsInterval /\ pc = "returned" /\ \A i \in 1..Len(rules) : BothPresent(rules[i])) =>
        \A t \in Index(input), col \in ColNames :
            LET covered == \E i \in 1..Len(rules) :
                              /\ rules[i].Start[1] <= t /\ t < rules[i].Stop[1]
                              /\ (rules[i].Sensor = AllToken \/ StartsWith(col, rules[i].Sensor))
            IN data[t][col] = IF covered THEN replacement_text ELSE input[t][col]

\* two rows with both bounds have run: a prefixed column was cleaned at the
\* start instant, kept at the stop instant, and another column was kept
C2_Witness ==
    /\ IsInterval /\ pc = "returned" /\ Len(rules) = 2
    /\ \A i \in 1..Len(rules) : BothPresent(rules[i]) /\ rules[i].Sensor = Sp
    /\ rules[1] = rules[2]
    /\ \E t \in Index(input) :
          /\ t = rules[1].Start[1] /\ data[t][Spd] = replacement_text
          /\ data[t][Dir] = input[t][Dir]
    /\ \E t \in Index(input) :
          t = rules[1].Stop[1] /\ data[t][Spd] = input[t][Spd]

\* C3: the rules are applied in source order, and a cell that several rules
\* wrote holds, in every state, what the later rule wrote: the j-th write is
\* rule j's, and no cell a rule wrote holds anything but the replacement.
C3_SourceOrderLastWriteWins ==
    /\ \A j \in 1..Len(log) : log[j].rule = j
    /\ \A j \in 1..Len(log) : \A cell \in log[j].cells :
          data[cell[1]][cell[2]] = replacement_text
    /\ pc = "returned" => Len(log) = Len(rules)

\* two rules wrote the same cell
C3_Witness ==
    /\ pc = "returned" /\ Len(log) = 2
    /\ log[1].cells \cap log[2].cells # {}
    /\ log[1].cells # log[2].cells

Invalid(rs) == {i \in 1..Len(rs) : ~validate_json(rs[i])}

\* C4: if any rule document of the list fails validation, apply_cleaning_rules
\* ends with the raised validation error and no cell has been written, with
\* inplace true as well and also when the invalid rule follows valid ones.
C4_InvalidRuleSetWritesNothing ==
    (IsRules /\ Invalid(rules) # {}) =>
        /\ log = <<>> /\ data = input /\ callerData = input
        /\ pc \in {"call", "validate", "raised"}
        /\ pc = "raised" => err = "ValueError"

\* an in-place call whose second rule is invalid, after a valid first rule
\* that would have written cells, has raised
C4_Witness ==
    /\ IsRules /\ inplace /\ pc = "raised" /\ err = "ValueError"
    /\ Len(rules) = 2 /\ Invalid(rules) = {2}
    /\ rules[1].conditions.assembled_column_name = Spd
    /\ rules[1].conditions.comparison_operator_id = 6

RECURSIVE Violations(_)
Violations(rs) ==
    IF rs = <<>> THEN 0 ELSE SchemaErrors(Head(rs)) + Violations(Tail(rs))

\* C5: validation does not stop at the first failure: when the aggregate
\* error is raised, every rule document has been validated and every
\* violation of every document has been reported.
C5_AllRulesValidatedBeforeRaise ==
    (IsRules /\ pc = "raised" /\ err = "ValueError") =>
        /\ k = Len(rules)
        /\ reported = Violations(rules)

\* the first of two rules is invalid and the second, invalid too, was still
\* validated and its violations reported
C5_Witness ==
    /\ IsRules /\ pc = "raised" /\ err = "ValueError"
    /\ Len(rules) = 2 /\ Invalid(rules) = {1, 2}
    /\ SchemaErrors(rules[1]) = 1 /\ SchemaErrors(rules[2]) = 2
    /\ reported = 3

\* C6: with inplace false, every cell of the caller's dataset stays as it
\* was, in every state of each of the three entry points, whether the call
\* returns or raises.
C6_CopyLeavesCallerUntouched ==
    (inplace = FALSE) => callerData = input

\* a call without inplace wrote cells and then raised
C6_Witness ==
    /\ inplace = FALSE /\ pc = "raised" /\ log # <<>>
    /\ data # input

\* C7: with inplace true, a successful call of each entry point returns the
\* mutated original dataset.
C7_InplaceReturnsTheDataset ==
    (inplace /\ pc = "returned") => (ret = "data" /\ callerData = data)

OpenEnded(i) ==
    \/ IsInterval /\ rules[i].Start # NaT /\ rules[i].Stop = NaT
    \/ IsWindog /\ rules[i].StartTime # NaT /\ rules[i].EndTime = NaT
          /\ rules[i].FlagName \notin flags_to_exclude

RowStart(i) == IF IsInterval THEN rules[i].Start ELSE rules[i].StartTime
RowStop(i) == IF IsInterval THEN rules[i].Stop ELSE rules[i].EndTime
RowSensor(i) == IF IsInterval THEN rules[i].Sensor ELSE rules[i].DataColumn
RowMatches(i, col) ==
    \/ IsInterval /\ rules[i].Sensor = AllToken
    \/ StartsWith(col, RowSensor(i))

\* C8: in the interval and flag-log executors a row without Stop/End is
\* open-ended upward: every dataset timestamp t >= Start of a matched column
\* is masked, also one later than the moment of the call.
C8_MissingStopIsOpenEnded ==
    ((IsInterval \/ IsWindog) /\ pc = "returned") =>
        \A i \in 1..Len(rules) : OpenEnded(i) =>
            \A t \in Index(input), col \in ColNames :
                (t >= RowStart(i)[1] /\ RowMatches(i, col)) =>
                    data[t][col] = replacement_text

\* C9: a conditional rule without date_from, or with a null date_from, is
\* applied from the dataset's first timestamp: no error is raised and every
\* row that satisfies the condition (below date_to when given) is replaced.
C9_NullDateFromStartsAtFirstTimestamp ==
    (/\ IsRules /\ Len(rules) = 1 /\ pc \in {"returned", "raised"}
     /\ validate_json(rules[1])
     /\ rules[1].conditions.assembled_column_name \in ColNames
     /\ (~HasFrom(rules[1]) \/ rules[1].date_from = NaT)) =>
        /\ pc = "returned" /\ err = "none"
        /\ LET rule == rules[1]
               c == rule.conditions
           IN \A t \in Index(input), col \in Targets(rule) :
                (/\ Satisfies(c.comparison_operator_id,
                              input[t][c.assembled_column_name], c.comparator_value)
                 /\ (HasTo(rule) => t < rule.date_to[1])) =>
                    data[t][col] = replacement_text

FromStart(i) ==
    \/ IsInterval /\ rules[i].Start = NaT /\ rules[i].Stop # NaT
    \/ IsWindog /\ rules[i].StartTime = NaT /\ rules[i].EndTime # NaT
          /\ rules[i].FlagName \notin flags_to_exclude

\* C10: in the interval and flag-log executors a row without Start takes the
\* dataset's first timestamp as lower bound: every dataset timestamp
\* t < Stop of a matched column is masked, none excluded from below.
C10_MissingStartBeginsAtFirstTimestamp ==
    ((IsInterval \/ IsWindog) /\ pc = "returned") =>
        \A i \in 1..Len(rules) : FromStart(i) =>
            \A t \in Index(input), col \in ColNames :
                (t < RowStop(i)[1] /\ RowMatches(i, col)) =>
                    data[t][col] = replacement_text

\* the columns of a sequence, once each, in the dataset's column order
InDatasetOrder(cols) == SelectSeq(Columns, LAMBDA c : c \in Range(cols))

\* the columns holding the selector, selector by selector
RECURSIVE Resolved(_, _)
Resolved(sels, n) ==
    IF n = 0 THEN <<>>
    ELSE Resolved(sels, n - 1) \o SelectSeq(Columns, LAMBDA c : Within(c, sels[n]))

\* C11 as stated: the columns a rule writes are resolved in the dataset's
\* column order with none twice, also when two selectors of a conditional
\* rule's clean_out match the same column.
C11_ResolvedOnceInDatasetOrder ==
    \A j \in 1..Len(log) : log[j].cols = InDatasetOrder(log[j].cols)

\* C11, amended: the interval and flag-log executors take the matched columns
\* in the dataset's column order, each once; a conditional rule's target list
\* holds, selector by selector in clean_out order, the columns containing that
\* selector in the dataset's order, so a column that several selectors match
\* is listed once per selector; the columns written are the matched ones.
C11_ResolvedSelectorBySelector ==
    \A j \in 1..Len(log) :
        IF IsRules
        THEN LET sels == rules[log[j].rule].clean_out
             IN /\ log[j].cols = Resolved(sels, Len(sels))
                /\ Range(log[j].cols) = Targets(rules[log[j].rule])
        ELSE log[j].cols = InDatasetOrder(log[j].cols)

\* a conditional rule with two selectors that both match one column has
\* written cells: its target list names that column twice
C11_Witness ==
    /\ IsRules /\ pc = "returned" /\ Len(log) = 1
    /\ Len(rules[1].clean_out) = 2
    /\ Len(log[1].cols) > Cardinality(Range(log[1].cols))
    /\ log[1].cells # {}

\* the rule or row the running loop takes next
Running(i) ==
    /\ IsRules \/ IsInterval \/ IsWindog
    /\ pc = "execute" /\ k < Len(rules) /\ i = k + 1

\* no column of the dataset matches the rule's selectors
NoMatch(i) ==
    IF IsRules THEN Targets(rules[i]) = {}
    ELSE ~\E col \in ColNames : RowMatches(i, col)

\* the condition of conditional rule i cannot be evaluated on the dataset:
\* its column is missing, its date_from is null, or it orders text cells
CondFails(i) ==
    LET c == rules[i].conditions
    IN \/ c.assembled_column_name \notin ColNames
       \/ HasFrom(rules[i]) /\ rules[i].date_from = NaT
       \/ /\ c.comparison_operator_id \in 1..4
          /\ \E t \in Index(data) : data[t][c.assembled_column_name].k = "txt"

Covers(i) ==
    /\ RowStart(i) # NaT /\ RowStop(i) # NaT
    /\ \A t \in Index(input) : RowStart(i)[1] <= t /\ t < RowStop(i)[1]

\* C13: after apply_cleaning has run a list holding a row whose sensor is the
\* sentinel-all token and whose interval covers the whole index, every cell
\* of every column holds the replacement, whatever the column is called.
C13_SentinelAllOverWholeIndexCleansAll ==
    (IsInterval /\ pc = "returned"
        /\ \E i \in 1..Len(rules) : rules[i].Sensor = AllToken /\ Covers(i)) =>
        \A t \in Index(data) : \A c \in DOMAIN data[t] : data[t][c] = replacement_text

\* one sentinel-all row over a full-length index has cleaned a column whose
\* name does not start with the token
C13_Witness ==
    /\ IsInterval /\ pc = "returned" /\ pass = 1 /\ Len(rules) = 1
    /\ rules[1].Sensor = AllToken /\ Covers(1)
    /\ Index(input) = Times
    /\ \A t \in Index(input) :
          input[t][Dir] # replacement_text /\ data[t][Dir] = replacement_text

\* C14: interval cleaning is idempotent: apply_cleaning run with the same rows
\* and the same replacement on the dataset a first call returned gives back
\* exactly that dataset.
C14_IntervalCleaningIsIdempotent ==
    (IsInterval /\ pass = 2 /\ pc = "returned") => data = input

\* C15: in every state of a call of each executor, the dataset's timestamp
\* index and its columns are those of the input, for the working dataset and
\* for the caller's; only cell values differ.
C15_IndexAndColumnsArePreserved ==
    /\ DOMAIN data = DOMAIN input /\ DOMAIN callerData = DOMAIN input
    /\ \A t \in DOMAIN input :
          /\ DOMAIN data[t] = DOMAIN input[t]
          /\ DOMAIN callerData[t] = DOMAIN input[t]
          /\ DOMAIN input[t] = ColNames

\* a conditional rule whose selector is a part of two column names, not a
\* column name itself, has replaced cells of both columns
C15_Witness ==
    /\ IsRules /\ pc = "returned" /\ Len(log) = 1
    /\ rules[1].clean_out = << <<"S">> >>
    /\ \E t \in Index(input) :
          /\ data[t][Spd] # input[t][Spd]
          /\ data[t][AllS] # input[t][AllS]

\* C16: in apply_cleaning_windographer a row whose flag is excluded (by
\* default 'Synthesized') writes no cell, also when its selector prefixes a
\* column and its interval covers timestamps; the other rows act as
\* prefix-matched interval rules: with Start and End on each of them, a cell
\* holds the replacement iff such a row covers it, its input value otherwise.
C16_ExcludedFlagWritesNothing ==
    IsWindog =>
        /\ \A j \in 1..Len(log) :
              rules[log[j].rule].FlagName = "Synthesized" => log[j].cells = {}
        /\ (/\ pc = "returned"
            /\ \A i \in 1..Len(rules) :
                  rules[i].FlagName # "Synthesized" =>
                      rules[i].StartTime # NaT /\ rules[i].EndTime # NaT) =>
              \A t \in Index(input), col \in ColNames :
                  LET covered == \E i \in 1..Len(rules) :
                                    /\ rules[i].FlagName # "Synthesized"
                                    /\ StartsWith(col, rules[i].DataColumn)
                                    /\ rules[i].StartTime[1] <= t
                                    /\ t < rules[i].EndTime[1]
                  IN data[t][col] = IF covered THEN replacement_text ELSE input[t][col]

\* a 'Synthesized' row over a prefixed column and a timestamp of the dataset
\* left that cell alone, and the 'Icing' row after it cleaned cells
C16_Witness ==
    /\ IsWindog /\ pc = "returned" /\ pass = 1 /\ Len(rules) = 2
    /\ rules[1].FlagName = "Synthesized" /\ rules[1].DataColumn = Sp
    /\ rules[1].StartTime # NaT /\ rules[1].EndTime # NaT
    /\ rules[2].FlagName = "Icing" /\ log[2].cells # {}
    /\ \E t \in Index(input) :
          /\ rules[1].StartTime[1] <= t /\ t < rules[1].EndTime[1]
          /\ data[t][Spd] = input[t][Spd] /\ input[t][Spd] # replacement_text

IsDirect == entry = "_apply_cleaning_rule"
MissingCond(i) == rules[i].conditions.assembled_column_name \notin ColNames
\* the execution loop is running or has ended, by return or by an error of a rule
\* the exceptions a rule raises while it is executed
ExecErrors == {"KeyError: operator", "KeyError: column", "TypeError"}
Executing == pc \in {"execute", "returned"} \/ (pc = "raised" /\ err \in ExecErrors)

\* C17: a valid conditional rule whose condition column is not in the dataset
\* is not skipped: apply_cleaning_rules never gets past it, the call ends with
\* the lookup error of that rule, and the rule writes no cell, also when its
\* target selectors match columns.
C17_MissingConditionColumnFails ==
    (IsRules /\ Invalid(rules) = {}) =>
        /\ \A j \in 1..Len(log) : ~MissingCond(log[j].rule)
        /\ Executing => \A i \in 1..Len(rules) : MissingCond(i) => k < i
        /\ pc = "returned" => \A i \in 1..Len(rules) : ~MissingCond(i)
        /\ (pc = "raised" /\ err \in ExecErrors /\ MissingCond(k + 1)) =>
              err = "KeyError: column"

\* the second of two rules names a condition column the dataset lacks and
\* targets that match: the call raised after the first rule's writes only
C17_Witness ==
    /\ IsRules /\ pc = "raised" /\ err = "KeyError: column"
    /\ Len(rules) = 2 /\ k = 1 /\ MissingCond(2) /\ ~MissingCond(1)
    /\ Targets(rules[2]) # {}
    /\ Len(log) = 1 /\ log[1].cells # {}

\* what one conditional rule makes of a dataset
Expected(d, rule) ==
    LET c == rule.conditions
        from == IF HasFrom(rule) THEN rule.date_from[1] ELSE First(d)
        hit(t) == /\ Satisfies(c.comparison_operator_id,
                               d[t][c.assembled_column_name], c.comparator_value)
                  /\ from <= t
                  /\ (HasTo(rule) => t < rule.date_to[1])
    IN [t \in DOMAIN d |->
          [col \in DOMAIN d[t] |->
              IF col \in Targets(rule) /\ hit(t) THEN replacement_text ELSE d[t][col]]]

\* what the first n rules of a list make of a dataset, in order
RECURSIVE ExpectedAfter(_, _, _)
ExpectedAfter(d, rs, n) ==
    IF n = 0 THEN d ELSE Expected(ExpectedAfter(d, rs, n - 1), rs[n])

\* C18: no rollback: when rule N of M fails during execution of an in-place
\* call, the caller's dataset holds exactly what rules 1..N-1 made of it, in
\* order, and nothing of rules N..M, and the call has ended with the error.
C18_NoRollbackOnExecutionError ==
    (IsRules /\ inplace /\ pc = "raised" /\ err \in ExecErrors) =>
        /\ callerData = ExpectedAfter(input, rules, k)
        /\ Len(log) = k /\ k < Len(rules)
        /\ err # "none" /\ ret = "unset"

\* the second of two rules failed in an in-place call: the caller's dataset
\* holds the first rule's writes
C18_Witness ==
    /\ IsRules /\ inplace /\ pc = "raised" /\ err \in ExecErrors
    /\ Len(rules) = 2 /\ k = 1
    /\ callerData # input

OpCode(i) == rules[i].conditions.comparison_operator_id

\* C19: an operator code outside 1..6 that reaches _apply_cleaning_rule makes
\* it fail with the unknown-operator error, and that rule writes no cell;
\* a code in 1..6 never raises this error.
C19_UnknownOperatorFails ==
    (IsRules \/ IsDirect) =>
        /\ \A j \in 1..Len(log) : OpCode(log[j].rule) \in 1..6
        /\ (IsDirect /\ OpCode(1) \notin 1..6) =>
              /\ pc \in {"call", "raised"}
              /\ data = input /\ callerData = input
              /\ pc = "raised" => err = "KeyError: operator"
        /\ err = "KeyError: operator" => OpCode(k + 1) \notin 1..6

\* a direct call with code 7 on a condition column that is there has raised
\* the unknown-operator error, the dataset as it was
C19_Witness ==
    /\ IsDirect /\ pc = "raised" /\ err = "KeyError: operator"
    /\ OpCode(1) = 7 /\ ~MissingCond(1)
    /\ log = <<>> /\ callerData = input

\* rule i has both bounds and its stop is not after its start
Inverted(i) ==
    IF IsRules
    THEN /\ HasFrom(rules[i]) /\ rules[i].date_from # NaT /\ HasTo(rules[i])
         /\ rules[i].date_to[1] <= rules[i].date_from[1]
    ELSE /\ RowStart(i) # NaT /\ RowStop(i) # NaT
         /\ RowStop(i)[1] <= RowStart(i)[1]

\* C20 as stated: a rule whose interval is empty or inverted matches no row:
\* in the conditional and the interval executors it writes no cell, raises
\* nothing, and the loop goes on.
C20_InvertedIntervalIsSilentNoOp ==
    [][\A i \in 1..Len(rules) : (Running(i) /\ Inverted(i)) =>
          /\ data' = data /\ callerData' = callerData
          /\ pc' = "execute" /\ k' = i /\ err' = "none"]_vars

\* C20, amended: a rule whose interval is empty or inverted writes no cell in
\* the conditional and the interval executors; the interval executors raise
\* nothing, and neither does the conditional executor unless the rule's
\* condition cannot be evaluated (missing condition column, ordering of text
\* cells), which raises whatever the interval.
C20_InvertedIntervalWritesNothing ==
    [][\A i \in 1..Len(rules) : (Running(i) /\ Inverted(i)) =>
          /\ data' = data /\ callerData' = callerData
          /\ IF IsRules /\ CondFails(i)
             THEN pc' = "raised" /\ err' # "none" /\ k' = k
             ELSE /\ pc' = "execute" /\ k' = i /\ err' = "none"
                  /\ Len(log') = Len(log) + 1 /\ log'[Len(log')].cells = {}]_vars

\* a conditional rule with date_to before date_from, a matching target and a
\* condition that readings satisfy has run and written nothing
C20_Witness ==
    /\ IsRules /\ pc = "returned" /\ Len(rules) = 1 /\ Len(log) = 1
    /\ Inverted(1) /\ rules[1].date_to[1] < rules[1].date_from[1]
    /\ Targets(rules[1]) # {}
    /\ \E t \in Index(input) :
          Satisfies(OpCode(1), input[t][rules[1].conditions.assembled_column_name],
                    rules[1].conditions.comparator_value)
    /\ log[1].cells = {} /\ data = input

\* a rule source that is no path to a loadable file and no in-memory frame
\* or list of the expected kind
Unusable == source \notin {"str", "DataFrame", "list", "arguments"}
            \/ (IsInterval /\ source = "list")
            \/ (IsRules /\ source = "DataFrame")
            \/ (IsWindog /\ source # "str")

\* C21: a call whose rule source cannot be loaded or recognised ends with a
\* raised error, never with a normal return, and executes no rule.
C21_UnusableSourceRaises ==
    Unusable =>
        /\ pc \in {"call", "raised"} /\ ret = "unset"
        /\ pc = "raised" => err # "none"
        /\ log = <<>> /\ data = input /\ callerData = input

Ended == pc \in {"returned", "raised"}

\* C22: rule execution terminates: every call on a finite dataset and a
\* finite rule list ends (Done or aborted); while executing, each step takes
\* the next rule in source order, exactly once, or aborts on the rule that
\* fails, or returns after the last rule; a returned call has visited every
\* rule once, in order, and an ended call takes no further step.
C22_ExecutionTerminates ==
    /\ <>Ended
    /\ [](pc = "returned" =>
             /\ Len(log) = Len(rules)
             /\ \A j \in 1..Len(log) : log[j].rule = j)
    /\ [][/\ pc = "execute" =>
               \/ /\ k < Len(rules) /\ pc' = "execute" /\ k' = k + 1
                  /\ Len(log') = Len(log) + 1 /\ log'[Len(log')].rule = k + 1
                  /\ SubSeq(log', 1, Len(log)) = log
               \/ k < Len(rules) /\ pc' = "raised" /\ k' = k /\ log' = log
               \/ k = Len(rules) /\ pc' = "returned" /\ k' = k /\ log' = log
          /\ ~Ended]_vars

\* a call on two rules has returned after visiting both, and a call on two
\* rules has aborted on its second
C22_Witness ==
    /\ IsRules /\ Len(rules) = 2
    /\ \/ pc = "returned" /\ Len(log) = 2 /\ log[1].cells # {} /\ log[2].cells # {}
       \/ pc = "raised" /\ err \in ExecErrors /\ k = 1 /\ Len(log) = 1

\* the timestamps at which a conditional rule's condition and dates hold on
\* a dataset
Hits(d, rule) ==
    LET c == rule.conditions
        from == IF HasFrom(rule) THEN rule.date_from[1] ELSE First(d)
    IN {t \in Index(d) :
          /\ Satisfies(c.comparison_operator_id,
                       d[t][c.assembled_column_name], c.comparator_value)
          /\ from <= t
          /\ (HasTo(rule) => t < rule.date_to[1])}

\* C24: within one apply_cleaning_rules call the condition of rule k is
\* evaluated on the dataset as rules 1..k-1 left it, not on the input: the
\* cells rule k writes are its targets at the timestamps where its condition
\* holds on that mutated dataset, and the dataset after k rules is what the
\* rules make of it one after the other.
C24_ConditionSeesEarlierWrites ==
    (IsRules /\ Executing) =>
        /\ \A j \in 1..Len(log) :
              log[j].cells =
                  Hits(ExpectedAfter(input, rules, j - 1), rules[j]) \X Targets(rules[j])
        /\ data = ExpectedAfter(input, rules, Len(log))

\* the first of two rules replaced readings of the second rule's condition
\* column, and the second rule wrote other cells than it would have written
\* on the input
C24_Witness ==
    /\ IsRules /\ pc = "returned" /\ Len(rules) = 2 /\ Len(log) = 2
    /\ \E t \in Index(input) :
          <<t, rules[2].conditions.assembled_column_name>> \in log[1].cells
    /\ log[2].cells # Hits(input, rules[2]) \X Targets(rules[2])
    /\ log[2].cells # {}

\* C25: applying one conditional rule a second time, with the same
\* replacement, to the dataset the first application left gives that same
\* dataset, also when the condition column is one of the rule's targets:
\* whether the second application returns or raises, no cell has changed,
\* and the cells the second pass rewrites already held the replacement.
C25_RuleTwiceEqualsOnce ==
    (IsDirect /\ pass = 2 /\ Ended) =>
        /\ data = input /\ callerData = input
        /\ \A j \in 1..Len(log) : \A cell \in log[j].cells :
              input[cell[1]][cell[2]] = replacement_text

\* a rule whose condition column is its target has been applied twice and
\* has returned twice; the first application had replaced readings
C25_Witness ==
    /\ IsDirect /\ pass = 2 /\ pc = "returned"
    /\ rules[1].conditions.assembled_column_name = Spd
    /\ Spd \in Range(rules[1].clean_out)
    /\ \E t \in Index(input) : input[t][Spd] = replacement_text
    /\ \E t \in Index(input) : input[t][Spd] # replacement_text
    /\ Len(log) = 1 /\ log[1].cells # {}

\* a name that is no column of the dataset but a part of a column name
ProperPart(n) == n \notin ColNames /\ \E col \in ColNames : Within(col, n)
CondName(i) == rules[i].conditions.assembled_column_name

\* C26: in apply_cleaning_rules the condition column is looked up by its
\* exact name and the targets by containment: a rule that wrote had a
\* condition name that is a column, and its targets hold every column whose
\* name contains one of its selectors; a rule whose condition name is only a
\* part of a column name raises the missing-column error when it is reached.
C26_ExactConditionContainedTargets ==
    (IsRules /\ Invalid(rules) = {} /\ Executing) =>
        /\ \A j \in 1..Len(log) :
              /\ CondName(log[j].rule) \in ColNames
              /\ \A i \in 1..Len(rules[log[j].rule].clean_out), col \in ColNames :
                    Within(col, rules[log[j].rule].clean_out[i]) =>
                        col \in Range(log[j].cols)
        /\ pc = "returned" => \A i \in 1..Len(rules) : ~ProperPart(CondName(i))
        /\ (pc = "raised" /\ err \in ExecErrors /\ ProperPart(CondName(k + 1))) =>
              err = "KeyError: column"

\* the name 'Sp', a part of the column name 'Spd': as the first rule's target
\* selector it matched that column and cells were written, as the second
\* rule's condition column it raised the missing-column error
C26_Witness ==
    /\ IsRules /\ Len(rules) = 2 /\ pc = "raised" /\ err = "KeyError: column" /\ k = 1
    /\ rules[1].clean_out = <<Sp>> /\ Spd \in Range(log[1].cols) /\ log[1].cells # {}
    /\ CondName(2) = Sp /\ ProperPart(Sp)

\* C27: apply_cleaning_windographer has no sentinel-all: a log row whose data
\* column is the literal 'All' writes only the columns whose names start with
\* 'All', whereas a row of apply_cleaning whose sensor is 'All' (the default
\* token) writes every column.
C27_FlagLogHasNoSentinelAll ==
    \A j \in 1..Len(log) :
        /\ (IsWindog /\ rules[log[j].rule].DataColumn = AllToken
               /\ rules[log[j].rule].FlagName # "Synthesized") =>
              /\ Range(log[j].cols) = {col \in ColNames : StartsWith(col, AllToken)}
              /\ \A cell \in log[j].cells : StartsWith(cell[2], AllToken)
        /\ (IsInterval /\ rules[log[j].rule].Sensor = AllToken) =>
              Range(log[j].cols) = ColNames

\* one 'All' row of the flag log over timestamps of the dataset has cleaned
\* the column 'AllS' and left 'Spd' and 'Dir' as they were
C27_Witness ==
    /\ IsWindog /\ pc = "returned" /\ Len(rules) = 1
    /\ rules[1].DataColumn = AllToken /\ rules[1].FlagName = "Icing"
    /\ \E t \in Index(input) :
          /\ data[t][AllS] = replacement_text /\ input[t][AllS] # replacement_text
          /\ data[t][Spd] = input[t][Spd] /\ input[t][Spd] # replacement_text
          /\ data[t][Dir] = input[t][Dir] /\ input[t][Dir] # replacement_text

\* the row is executed: every row of apply_cleaning, and the rows of
\* apply_cleaning_windographer whose flag is not excluded
Cleans(i) == IsInterval \/ (IsWindog /\ rules[i].FlagName \notin flags_to_exclude)

C23_SliceExcludesEndDate ==
    slice.pc = "returned" =>
        LET from == IF slice.date_from = NaT THEN slice.data[1] ELSE slice.date_from[1]
        IN slice.ret =
              SelectSeq(slice.data,
                        LAMBDA t : /\ from <= t
                                   /\ slice.date_to # NaT => t < slice.date_to[1])

\* the requests of the running call
Gets == request.gets
Posts == {j \in 1..Len(request.posts) : request.posts[j].call = request.calls}
Posted(j) == request.posts[j]

\* C29: a call of _brighthub_request sends at most two GETs.  It logs in,
\* before any GET, only when no ID token is cached.  A second GET is sent
\* exactly when the first was answered 401 'The incoming token has expired'
\* and the token refresh after it succeeded; it carries the ID token the
\* refresh issued, and its response is what the call returns, whatever its
\* status.
C29_AtMostTwoGets ==
    /\ Len(Gets) <= 2
    /\ \A j \in Posts :
          /\ Posted(j).flow = "login" => Posted(j).cached = "" /\ Posted(j).sent = 0
          /\ Posted(j).flow = "refresh" =>
                /\ Posted(j).sent = 1 /\ Gets[1].status = Expired
                /\ \A i \in Posts : Posted(i).flow = "refresh" => i = j
    /\ Len(Gets) = 2 =>
          /\ Gets[1].status = Expired
          /\ \E j \in Posts :
                /\ Posted(j).flow = "refresh" /\ Posted(j).ok
                /\ Gets[2].token = Posted(j).IdToken
          /\ request.pc = "returned" /\ request.ret = Gets[2].status
    /\ (request.pc \in {"returned", "raised"}
           /\ \E j \in Posts : Posted(j).flow = "refresh" /\ Posted(j).ok) =>
          Len(Gets) = 2
    /\ request.pc = "returned" =>
          /\ Len(Gets) >= 1 /\ request.ret = Gets[Len(Gets)].status
          /\ Len(Gets) = 1 => Gets[1].status # Expired

\* the first call of the process has logged in, met an expired token,
\* refreshed it, and returned the second response, which says expired again
C29_Witness ==
    /\ request.pc = "returned" /\ request.calls = 1 /\ Len(Gets) = 2
    /\ Gets[2].status = Expired /\ request.ret = Expired
    /\ Gets[2].token # Gets[1].token
    /\ \E j \in Posts : Posted(j).flow = "login" /\ Posted(j).ok

\* a login or refresh was answered in this step
Answered == Len(request'.posts) = Len(request.posts) + 1
Answer == request'.posts[Len(request'.posts)]

\* C30: a login or token refresh that fails (error or challenge response)
\* leaves ID_TOKEN and REFRESH_TOKEN as they were, does not hand
\* _brighthub_request the empty dict of a success, and no GET follows it in
\* the call; a refresh that succeeds sets ID_TOKEN to the token issued, and
\* REFRESH_TOKEN to the one issued if there is one, leaving it otherwise.
C30_FailedAuthKeepsTokens ==
    /\ [][Answered =>
            /\ ~Answer.ok =>
                  /\ BrighthubAuth'.ID_TOKEN = BrighthubAuth.ID_TOKEN
                  /\ BrighthubAuth'.REFRESH_TOKEN = BrighthubAuth.REFRESH_TOKEN
                  /\ Answer.returned # "{}"
                  /\ request'.pc = "raised" /\ request'.gets = request.gets
            /\ (Answer.ok /\ Answer.flow = "refresh") =>
                  /\ BrighthubAuth'.ID_TOKEN = Answer.IdToken
                  /\ BrighthubAuth'.REFRESH_TOKEN =
                        IF Answer.RefreshToken # "" THEN Answer.RefreshToken
                        ELSE BrighthubAuth.REFRESH_TOKEN]_vars
    /\ [][request.pc = "raised" => request'.gets \in {request.gets, <<>>}]_vars
    /\ [](\A j \in Posts : ~Posted(j).ok =>
            request.pc = "raised" /\ Len(Gets) = Posted(j).sent)

\* a refresh failed in the first call with both tokens cached, and in the
\* second call a refresh that carried no new refresh token has replaced the
\* ID token and kept the refresh token
C30_Witness ==
    /\ request.calls = 2 /\ request.pc = "returned" /\ Len(request.posts) = 3
    /\ Posted(1).flow = "login" /\ Posted(1).ok
    /\ Posted(2).flow = "refresh" /\ ~Posted(2).ok /\ Posted(2).call = 1
    /\ Posted(2).cached = Posted(1).IdToken
    /\ Posted(3).flow = "refresh" /\ Posted(3).ok /\ Posted(3).RefreshToken = ""
    /\ Posted(3).cached = Posted(1).IdToken /\ Posted(3).IdToken # Posted(3).cached
    /\ BrighthubAuth.ID_TOKEN = Posted(3).IdToken
    /\ BrighthubAuth.REFRESH_TOKEN = Posted(1).RefreshToken

====
